---- MODULE Spec2Model ----
(***************************************************************************)
(* ping-pong-client: the body of `async fn main` (src/main.rs) as a state  *)
(* machine.  One action per statement or match arm; every `.await` is an   *)
(* action that starts the operation and one action per arm that resolves   *)
(* it.  The transport library (wtransport) is the environment: `env` fixes *)
(* for one run what each fallible library call answers when it is made.    *)
(***************************************************************************)
EXTENDS Integers, Sequences, FiniteSets, TLC

VARIABLES
    pc,           \* position in main
    ret,          \* what main returned: "none" while running
    res,          \* the binding `_res` of line 45
    config,       \* the binding `config` of line 19: the bind address
    conn,         \* the binding `conn`: "none", "connecting", "connection"
    peer,         \* the arguments endpoint.connect was called with
    stream,       \* the binding `stream`, outbound half: "none", "open", "finished"
    sent,         \* the bytes the outbound half accepted
    reads,        \* number of reads of the inbound half stream.1
    created,      \* how many Endpoint / Session / Stream values were made
    calls,        \* the library calls made so far, in order
    outcome,      \* what each call returned: "none", "Ok", "Err"
    outstanding,  \* futures being awaited and not yet resolved
    stdout,       \* lines printed
    env,          \* what the library answers to each fallible call in this run
    history       \* what the earlier runs of the process ended with

vars == <<pc, ret, res, config, conn, peer, stream, sent, reads, created,
          calls, outcome, outstanding, stdout, env, history>>

-----------------------------------------------------------------------------
(* Constants of main.rs *)

PORT == 4433
HOST == "::1"
LOCALHOST == "localhost"
UNSPECIFIED == "::"
\* b"ping"
PING == <<112, 105, 110, 103>>

\* enum ClientError
ClientError == {"TimeOut", "LocallyClosed", "QuicError", "StreamOpeningError"}

\* The library calls of main in program order; "builder" returns a value,
\* the other six return a Result.
CALLS == <<"builder", "client", "connect", "conn_await", "open_bi", "write_all", "finish">>
Fallible == {"client", "connect", "conn_await", "open_bi", "write_all", "finish"}
AllCalls == Fallible \cup {"builder"}
Kinds == {"Endpoint", "Session", "Stream"}

-----------------------------------------------------------------------------
(* Helpers *)

\* a synchronous call c returned r
Call(c, r) ==
    /\ calls' = Append(calls, c)
    /\ outcome' = [outcome EXCEPT ![c] = r]
    /\ UNCHANGED outstanding

\* `fut.await`: the future of call c starts being awaited
Start(c) ==
    /\ c \notin outstanding
    /\ outcome[c] = "none"
    /\ calls' = Append(calls, c)
    /\ outstanding' = outstanding \cup {c}
    /\ UNCHANGED outcome

\* the awaited future of call c resolved with r
Resolve(c, r) ==
    /\ c \in outstanding
    /\ env[c] = r
    /\ outcome' = [outcome EXCEPT ![c] = r]
    /\ outstanding' = outstanding \ {c}
    /\ UNCHANGED calls

\* `return Err(ClientError::kind)` and the final `Ok(())`
Return(kind) ==
    /\ pc' = "exit"
    /\ ret' = kind

Make(kind) == created' = [created EXCEPT ![kind] = @ + 1]

-----------------------------------------------------------------------------
Init ==
    /\ pc = "start"
    /\ ret = "none"
    /\ res = "unset"
    /\ config = <<>>
    /\ conn = "none"
    /\ peer = <<>>
    /\ stream = "none"
    /\ sent = <<>>
    /\ reads = 0
    /\ created = [k \in Kinds |-> 0]
    /\ calls = <<>>
    /\ outcome = [c \in AllCalls |-> "none"]
    /\ outstanding = {}
    /\ stdout = <<>>
    /\ env \in [Fallible -> {"Ok", "Err"}]
    /\ history = <<>>

\* lines 18-22: build the configuration with the bind address, print it
Bind ==
    /\ pc = "start"
    /\ config' = <<UNSPECIFIED, 0>>
    /\ Call("builder", "Ok")
    /\ stdout' = Append(stdout, "Bind address")
    /\ pc' = "client"
    /\ UNCHANGED <<ret, res, conn, peer, stream, sent, reads, created, env, history>>

\* line 24, arm Ok(endpoint)
ClientOk ==
    /\ pc = "client"
    /\ env["client"] = "Ok"
    /\ Call("client", "Ok")
    /\ Make("Endpoint")
    /\ pc' = "connect"
    /\ UNCHANGED <<ret, res, config, conn, peer, stream, sent, reads, stdout, env, history>>

\* ClientErr with the kind of the inner arm (line 33) in place of line 35's
ClientErr_InnerKind ==
    /\ pc = "client"
    /\ env["client"] = "Err"
    /\ Call("client", "Err")
    /\ Return("LocallyClosed")
    /\ UNCHANGED <<res, config, conn, peer, stream, sent, reads, created, stdout, env, history>>

\* line 24, arm Err(_) of line 35
ClientErr ==
    /\ pc = "client"
    /\ env["client"] = "Err"
    /\ Call("client", "Err")
    /\ Return("QuicError")
    /\ UNCHANGED <<res, config, conn, peer, stream, sent, reads, created, stdout, env, history>>

\* lines 25-26, arm Ok(conn) of line 27
ConnectOk ==
    /\ pc = "connect"
    /\ env["connect"] = "Ok"
    /\ Call("connect", "Ok")
    /\ peer' = <<HOST, PORT, LOCALHOST>>
    /\ conn' = "connecting"
    /\ pc' = "conn_await"
    /\ UNCHANGED <<ret, res, config, stream, sent, reads, created, stdout, env, history>>

\* ConnectErr without the `return`: control goes on to conn.await
ConnectErr_NoReturn ==
    /\ pc = "connect"
    /\ env["connect"] = "Err"
    /\ Call("connect", "Err")
    /\ peer' = <<HOST, PORT, LOCALHOST>>
    /\ pc' = "conn_await"
    /\ UNCHANGED <<ret, res, config, conn, stream, sent, reads, created, stdout, env, history>>

\* ConnectErr with the kind of the outer arm (line 35) in place of line 33's
ConnectErr_OuterKind ==
    /\ pc = "connect"
    /\ env["connect"] = "Err"
    /\ Call("connect", "Err")
    /\ peer' = <<HOST, PORT, LOCALHOST>>
    /\ Return("QuicError")
    /\ UNCHANGED <<res, config, conn, stream, sent, reads, created, stdout, env, history>>

\* lines 25-26, arm Err(_) of line 33
ConnectErr ==
    /\ pc = "connect"
    /\ env["connect"] = "Err"
    /\ Call("connect", "Err")
    /\ peer' = <<HOST, PORT, LOCALHOST>>
    /\ Return("LocallyClosed")
    /\ UNCHANGED <<res, config, conn, stream, sent, reads, created, stdout, env, history>>

\* line 28: conn.await suspends
AwaitStart ==
    /\ pc = "conn_await"
    /\ Start("conn_await")
    /\ UNCHANGED <<pc, ret, res, config, conn, peer, stream, sent, reads, created, stdout, env, history>>

\* line 29, arm Ok(connection); then line 38 prints
AwaitOk ==
    /\ pc = "conn_await"
    /\ Resolve("conn_await", "Ok")
    /\ conn' = "connection"
    /\ Make("Session")
    /\ stdout' = Append(stdout, "Connected")
    /\ pc' = "open_bi"
    /\ UNCHANGED <<ret, res, config, peer, stream, sent, reads, env, history>>

\* AwaitErr that awaits the same handshake again instead of returning
AwaitErr_Retry ==
    /\ pc = "conn_await"
    /\ "conn_await" \in outstanding
    /\ env["conn_await"] = "Err"
    /\ UNCHANGED vars

\* AwaitErr reporting the kind of the arm that encloses it (line 33)
AwaitErr_LocallyClosed ==
    /\ pc = "conn_await"
    /\ Resolve("conn_await", "Err")
    /\ Return("LocallyClosed")
    /\ UNCHANGED <<res, config, conn, peer, stream, sent, reads, created, stdout, env, history>>

\* AwaitErr without the `return`: control goes on to open_bi
AwaitErr_NoReturn ==
    /\ pc = "conn_await"
    /\ Resolve("conn_await", "Err")
    /\ pc' = "open_bi"
    /\ UNCHANGED <<ret, res, config, conn, peer, stream, sent, reads, created, stdout, env, history>>

\* line 30, arm Err(_)
AwaitErr ==
    /\ pc = "conn_await"
    /\ Resolve("conn_await", "Err")
    /\ Return("TimeOut")
    /\ UNCHANGED <<res, config, conn, peer, stream, sent, reads, created, stdout, env, history>>

\* line 40: conn.open_bi().await suspends
OpenBiStart ==
    /\ pc = "open_bi"
    /\ Start("open_bi")
    /\ UNCHANGED <<pc, ret, res, config, conn, peer, stream, sent, reads, created, stdout, env, history>>

\* OpenBiOk after which a second stream is opened on the session
OpenBiOk_Twice ==
    /\ pc = "open_bi"
    /\ Resolve("open_bi", "Ok")
    /\ stream' = "open"
    /\ created' = [created EXCEPT !["Stream"] = @ + 2]
    /\ pc' = "write_all"
    /\ UNCHANGED <<ret, res, config, conn, peer, sent, reads, stdout, env, history>>

\* line 41, arm Ok(s)
OpenBiOk ==
    /\ pc = "open_bi"
    /\ Resolve("open_bi", "Ok")
    /\ stream' = "open"
    /\ Make("Stream")
    /\ pc' = "write_all"
    /\ UNCHANGED <<ret, res, config, conn, peer, sent, reads, stdout, env, history>>

\* OpenBiErr reporting the kind used by the neighbouring arms
OpenBiErr_TimeOut ==
    /\ pc = "open_bi"
    /\ Resolve("open_bi", "Err")
    /\ Return("TimeOut")
    /\ UNCHANGED <<res, config, conn, peer, stream, sent, reads, created, stdout, env, history>>

\* line 42, arm Err(_)
OpenBiErr ==
    /\ pc = "open_bi"
    /\ Resolve("open_bi", "Err")
    /\ Return("StreamOpeningError")
    /\ UNCHANGED <<res, config, conn, peer, stream, sent, reads, created, stdout, env, history>>

\* WriteAllStart that does not wait for the write: control goes on to finish
WriteAllStart_NoWait ==
    /\ pc = "write_all"
    /\ Start("write_all")
    /\ pc' = "finish"
    /\ UNCHANGED <<ret, res, config, conn, peer, stream, sent, reads, created, stdout, env, history>>

\* line 45: stream.0.write_all(b"ping").await suspends
WriteAllStart ==
    /\ pc = "write_all"
    /\ Start("write_all")
    /\ UNCHANGED <<pc, ret, res, config, conn, peer, stream, sent, reads, created, stdout, env, history>>

\* WriteAllOk whose arm is Ok(()) without the nested finish
WriteAllOk_SkipFinish ==
    /\ pc = "write_all"
    /\ Resolve("write_all", "Ok")
    /\ sent' = sent \o PING
    /\ res' = "Ok"
    /\ pc' = "tail"
    /\ UNCHANGED <<ret, config, conn, peer, stream, reads, created, stdout, env, history>>

\* WriteAllOk whose arm returns Ok(()) at once
WriteAllOk_ReturnOk ==
    /\ pc = "write_all"
    /\ Resolve("write_all", "Ok")
    /\ sent' = sent \o PING
    /\ Return("Ok")
    /\ UNCHANGED <<res, config, conn, peer, stream, reads, created, stdout, env, history>>

\* line 46, arm Ok(_): every byte was accepted
WriteAllOk ==
    /\ pc = "write_all"
    /\ Resolve("write_all", "Ok")
    /\ sent' = sent \o PING
    /\ pc' = "finish"
    /\ UNCHANGED <<ret, res, config, conn, peer, stream, reads, created, stdout, env, history>>

\* WriteAllErr that reports the failure only when no byte was accepted
WriteAllErr_DependsOnBytes ==
    /\ pc = "write_all"
    /\ Resolve("write_all", "Err")
    /\ \E k \in 0..(Len(PING) - 1) :
          /\ sent' = sent \o SubSeq(PING, 1, k)
          /\ IF k = 0
                THEN Return("TimeOut") /\ res' = res
                ELSE res' = "Err(TimeOut)" /\ pc' = "tail" /\ ret' = ret
    /\ UNCHANGED <<config, conn, peer, stream, reads, created, stdout, env, history>>

\* WriteAllErr that writes the payload again instead of giving up
WriteAllErr_Retry ==
    /\ pc = "write_all"
    /\ "write_all" \in outstanding
    /\ env["write_all"] = "Err"
    /\ calls' = Append(calls, "write_all")
    /\ UNCHANGED <<pc, ret, res, config, conn, peer, stream, sent, reads, created,
                   outcome, outstanding, stdout, env, history>>

\* line 52, arm Err(_): the value Err(ClientError::TimeOut) becomes `_res`
\* and control falls to line 54.  write_all may have failed after any proper
\* prefix of the payload was accepted.
WriteAllErr ==
    /\ pc = "write_all"
    /\ Resolve("write_all", "Err")
    /\ \E k \in 0..(Len(PING) - 1) : sent' = sent \o SubSeq(PING, 1, k)
    /\ res' = "Err(TimeOut)"
    /\ pc' = "tail"
    /\ UNCHANGED <<ret, config, conn, peer, stream, reads, created, stdout, env, history>>

\* line 47: stream.0.finish().await suspends
FinishStart ==
    /\ pc = "finish"
    /\ Start("finish")
    /\ UNCHANGED <<pc, ret, res, config, conn, peer, stream, sent, reads, created, stdout, env, history>>

\* FinishOk followed by a read of the reply from the inbound half stream.1
FinishOk_ReadReply ==
    /\ pc = "finish"
    /\ Resolve("finish", "Ok")
    /\ stream' = "finished"
    /\ reads' = reads + 1
    /\ res' = "Ok"
    /\ pc' = "tail"
    /\ UNCHANGED <<ret, config, conn, peer, sent, created, stdout, env, history>>

\* line 48, arm Ok(_): the value Ok(()) becomes `_res`
FinishOk ==
    /\ pc = "finish"
    /\ Resolve("finish", "Ok")
    /\ stream' = "finished"
    /\ res' = "Ok"
    /\ pc' = "tail"
    /\ UNCHANGED <<ret, config, conn, peer, sent, reads, created, stdout, env, history>>

\* FinishErr without the `return`, as the arm of line 52 is written
FinishErr_NoReturn ==
    /\ pc = "finish"
    /\ Resolve("finish", "Err")
    /\ res' = "Err(TimeOut)"
    /\ pc' = "tail"
    /\ UNCHANGED <<ret, config, conn, peer, stream, sent, reads, created, stdout, env, history>>

\* line 49, arm Err(_)
FinishErr ==
    /\ pc = "finish"
    /\ Resolve("finish", "Err")
    /\ Return("TimeOut")
    /\ UNCHANGED <<res, config, conn, peer, stream, sent, reads, created, stdout, env, history>>

\* line 54: the function's value Ok(())
TailOk ==
    /\ pc = "tail"
    /\ Return("Ok")
    /\ UNCHANGED <<res, config, conn, peer, stream, sent, reads, created,
                   calls, outcome, outstanding, stdout, env, history>>

Next ==
    \/ Bind
    \/ ClientOk
    \/ ClientErr
    \/ ConnectOk
    \/ ConnectErr
    \/ AwaitStart
    \/ AwaitOk
    \/ AwaitErr
    \/ OpenBiStart
    \/ OpenBiOk
    \/ OpenBiErr
    \/ WriteAllStart
    \/ WriteAllOk
    \/ WriteAllErr
    \/ FinishStart
    \/ FinishOk
    \/ FinishErr
    \/ TailOk

Spec == Init /\ [][Next]_vars

\* The runtime polls main until it returns, and an awaited operation that the
\* transport resolves is delivered: no enabled step is postponed forever.
FairSpec == Spec /\ WF_vars(Next)

-----------------------------------------------------------------------------
(* Vocabulary of the properties *)

\* the six steps of the driver
STEPS == <<"bind", "initiate", "await", "open_stream", "write", "finish">>

\* the step a library call belongs to: initiation is Endpoint::client
\* followed by endpoint.connect
StepOf(c) ==
    CASE c = "builder" -> "bind"
      [] c \in {"client", "connect"} -> "initiate"
      [] c = "conn_await" -> "await"
      [] c = "open_bi" -> "open_stream"
      [] c = "write_all" -> "write"
      [] c = "finish" -> "finish"

RECURSIVE StepsOf(_)
StepsOf(cs) ==
    IF cs = <<>> THEN <<>>
    ELSE LET r == StepsOf(SubSeq(cs, 1, Len(cs) - 1))
             s == StepOf(cs[Len(cs)])
         IN IF r # <<>> /\ r[Len(r)] = s THEN r ELSE Append(r, s)

\* the steps attempted so far
Attempted == StepsOf(calls)

IsPrefix(s, t) == Len(s) <= Len(t) /\ s = SubSeq(t, 1, Len(s))

Called(c) == \E i \in 1..Len(calls) : calls[i] = c

Terminated == pc = "exit"

AllOk == \A c \in Fallible : env[c] = "Ok"

\* the lifecycle state of section 4.1, read off the bindings of main
LIFECYCLE == <<"Unbound", "Bound", "SessionPending", "SessionEstablished",
               "StreamOpen", "StreamOutboundFinished", "Done">>

State ==
    CASE pc = "exit" /\ ret = "Ok" -> "Done"
      [] pc = "exit" /\ ret # "Ok" -> "Failed"
      [] pc # "exit" /\ stream = "finished" -> "StreamOutboundFinished"
      [] pc # "exit" /\ stream = "open" -> "StreamOpen"
      [] pc # "exit" /\ stream = "none" /\ conn = "connection" -> "SessionEstablished"
      [] pc # "exit" /\ stream = "none" /\ conn = "connecting" -> "SessionPending"
      [] pc # "exit" /\ stream = "none" /\ conn = "none" /\ config # <<>> -> "Bound"
      [] OTHER -> "Unbound"

LifecycleStep(a, b) == \E i \in 1..(Len(LIFECYCLE) - 1) : a = LIFECYCLE[i] /\ b = LIFECYCLE[i + 1]

-----------------------------------------------------------------------------
(* Properties *)

\* C1: the calls made are a prefix of the program's calls, so the steps
\* attempted are a prefix of the six steps, and a call is made only after
\* every earlier call was made and returned Ok.
C1_AttemptedIsPrefix ==
    /\ IsPrefix(calls, CALLS)
    /\ IsPrefix(Attempted, STEPS)
    /\ \A i \in 1..Len(calls) : \A j \in 1..(i - 1) : outcome[calls[j]] = "Ok"

\* a run cut short by a failed handshake: three steps attempted, no more
C1_Witness ==
    /\ Terminated
    /\ outcome["conn_await"] = "Err"
    /\ Attempted = SubSeq(STEPS, 1, 3)

\* C2: a run whose write_all failed terminates reporting TimeOut.
C2_WriteFailureReportsTimeOut ==
    (Terminated /\ outcome["write_all"] = "Err") => ret = "TimeOut"

\* C3: once finish has failed (the write and everything before it having
\* succeeded) the run has terminated and reports TimeOut.
C3_FinishFailureReportsTimeOut ==
    outcome["finish"] = "Err" =>
        /\ Terminated
        /\ ret = "TimeOut"
        /\ \A c \in AllCalls \ {"finish"} : outcome[c] = "Ok"

C3_Witness == Terminated /\ outcome["finish"] = "Err" /\ outcome["write_all"] = "Ok"

\* C4: a terminated run reports Ok exactly when all six fallible calls were
\* made and returned Ok, and otherwise reports one of the four error kinds.
C4_AllOrNothing ==
    Terminated =>
        /\ ret = "Ok" <=> (\A c \in Fallible : outcome[c] = "Ok")
        /\ ret # "Ok" => ret \in ClientError

\* C5: once Endpoint::client has failed the run has terminated with
\* QuicError and no later call is ever made.
C5_ClientFailure ==
    outcome["client"] = "Err" =>
        /\ Terminated
        /\ ret = "QuicError"
        /\ calls = SubSeq(CALLS, 1, 2)
        /\ outstanding = {}

C5_Witness == Terminated /\ outcome["client"] = "Err" /\ Called("client")

\* C6: once endpoint.connect has failed after a successful construction the
\* run has terminated with LocallyClosed and neither the handshake wait nor
\* any later call is ever made.
C6_ConnectFailure ==
    outcome["connect"] = "Err" =>
        /\ outcome["client"] = "Ok"
        /\ Terminated
        /\ ret = "LocallyClosed"
        /\ calls = SubSeq(CALLS, 1, 3)
        /\ outstanding = {}

C6_Witness == Terminated /\ outcome["connect"] = "Err" /\ created["Endpoint"] = 1

\* C7: once the handshake wait has failed the run has terminated with
\* TimeOut, open_bi is never called and no stream exists.
C7_AwaitFailure ==
    outcome["conn_await"] = "Err" =>
        /\ outcome["connect"] = "Ok"
        /\ Terminated
        /\ ret = "TimeOut"
        /\ ~Called("open_bi")
        /\ stream = "none"
        /\ created["Stream"] = 0

C7_Witness == Terminated /\ outcome["conn_await"] = "Err" /\ conn = "connecting"

\* C8: once open_bi has failed on an established session the run has
\* terminated with StreamOpeningError and neither write_all nor finish is
\* ever called.
C8_OpenBiFailure ==
    outcome["open_bi"] = "Err" =>
        /\ conn = "connection"
        /\ Terminated
        /\ ret = "StreamOpeningError"
        /\ ~Called("write_all")
        /\ ~Called("finish")
        /\ sent = <<>>

C8_Witness == Terminated /\ outcome["open_bi"] = "Err" /\ created["Session"] = 1

\* C9: when every library call succeeds, the lifecycle state only ever moves
\* to its successor in Unbound, Bound, SessionPending, SessionEstablished,
\* StreamOpen, StreamOutboundFinished, Done; the run reaches Done; and in Done
\* exactly the payload "ping" was written to a stream of the session to
\* loopback:4433, the outbound half is finished and main returned Ok.
C9_HappyPath ==
    /\ [][AllOk => (State' = State \/ LifecycleStep(State, State'))]_vars
    /\ [](AllOk /\ Terminated =>
            /\ State = "Done"
            /\ ret = "Ok"
            /\ res = "Ok"
            /\ sent = PING
            /\ stream = "finished"
            /\ outcome["finish"] = "Ok"
            /\ peer = <<HOST, PORT, LOCALHOST>>
            /\ calls = CALLS)
    /\ (AllOk /\ State = "Unbound") ~> (State = "Done")

C9_Witness == AllOk /\ State = "Done" /\ sent = PING /\ stream = "finished"

\* C10 as claimed: a terminated run that created a stream has finished its
\* outbound half.
C10_StreamFinishedAtExit ==
    (Terminated /\ created["Stream"] > 0) => stream = "finished"

\* C10 as amended: in a terminated run that created a stream, finish was
\* attempted exactly when the write succeeded, and the outbound half is
\* finished exactly when that finish succeeded.
C10_FinishFollowsWrite ==
    (Terminated /\ created["Stream"] > 0) =>
        /\ Called("write_all")
        /\ Called("finish") <=> outcome["write_all"] = "Ok"
        /\ stream = "finished" <=> outcome["finish"] = "Ok"

C10_Witness ==
    /\ Terminated
    /\ created["Stream"] = 1
    /\ outcome["write_all"] = "Ok"
    /\ Called("finish")
    /\ stream = "finished"

\* how many times call c was made
Count(c) == Cardinality({i \in 1..Len(calls) : calls[i] = c})

\* C11: write_all is called at most once, the outbound half never holds more
\* than one copy of the payload, and a run that returned Ok called it
\* exactly once.
C11_PayloadWrittenOnce ==
    /\ Count("write_all") <= 1
    /\ IsPrefix(sent, PING)
    /\ (Terminated /\ ret = "Ok") => Count("write_all") = 1

C11_Witness == Terminated /\ ret = "Ok" /\ Count("write_all") = 1 /\ sent = PING

\* C12: at most one Endpoint, one Session and one Stream are created, no
\* write_all follows a finish, and once finish was attempted the bytes of
\* the outbound half never change and no write is outstanding.
C12_OneOfEachAndNoWriteAfterFinish ==
    /\ [](\A k \in Kinds : created[k] <= 1)
    /\ [](\A i \in 1..Len(calls) : \A j \in 1..Len(calls) :
            (calls[i] = "finish" /\ calls[j] = "write_all") => j < i)
    /\ [][Called("finish") => (sent' = sent /\ "write_all" \notin outstanding')]_vars

C12_Witness ==
    /\ Terminated
    /\ Called("finish")
    /\ \A k \in Kinds : created[k] = 1

\* some call of the run returned Err
SomeFailed == \E c \in Fallible : outcome[c] = "Err"

\* C13: no call is made twice; once a call has failed it stays the last
\* call and nothing is outstanding; and a run in which a call failed
\* terminates in Failed(reason), reporting one of the four error kinds.
C13_FailureIsTerminal ==
    /\ \A c \in AllCalls : Count(c) <= 1
    /\ SomeFailed => (outcome[calls[Len(calls)]] = "Err" /\ outstanding = {})
    /\ (SomeFailed /\ Terminated) => (State = "Failed" /\ ret \in ClientError)

\* C14: at most one awaited operation is outstanding, it is the operation
\* started last, and every operation started before it has resolved.
C14_OneOutstanding ==
    /\ Cardinality(outstanding) <= 1
    /\ \A c \in outstanding : c = calls[Len(calls)] /\ outcome[c] = "none"
    /\ \A i \in 1..(Len(calls) - 1) : outcome[calls[i]] # "none" /\ calls[i] \notin outstanding

C14_Witness == outstanding = {"finish"} /\ outcome["write_all"] = "Ok"

\* C15: the inbound half is never read: the read count stays 0 and every
\* call made is one of the seven calls of main, none of which reads.
C15_InboundNeverRead ==
    /\ reads = 0
    /\ \A i \in 1..Len(calls) : calls[i] \in AllCalls

C15_Witness == Terminated /\ ret = "Ok" /\ stream = "finished" /\ reads = 0

\* C16: each reported kind names a call that failed: QuicError only
\* Endpoint::client, LocallyClosed only endpoint.connect, StreamOpeningError
\* only open_bi, TimeOut only the handshake wait, write_all or finish.
C16_KindIdentifiesFailure ==
    /\ ret \in ClientError \cup {"none", "Ok"}
    /\ ret = "QuicError" => outcome["client"] = "Err"
    /\ ret = "LocallyClosed" => outcome["connect"] = "Err"
    /\ ret = "StreamOpeningError" => outcome["open_bi"] = "Err"
    /\ ret = "TimeOut" =>
         \E c \in {"conn_await", "write_all", "finish"} : outcome[c] = "Err"

C16_Witness == Terminated /\ ret = "TimeOut" /\ outcome["conn_await"] = "Err"

\* the steps main takes by itself: everything but the resolution of an
\* awaited operation
DriverStep ==
    \/ Bind
    \/ ClientOk \/ ClientErr
    \/ ConnectOk \/ ConnectErr
    \/ AwaitStart \/ OpenBiStart \/ WriteAllStart \/ FinishStart
    \/ TailOk

\* C17: when no enabled step is postponed forever (every awaited operation
\* resolves), every run terminates; main makes at most its seven calls; and
\* a run that has not terminated and has nothing outstanding can always
\* take a step of its own, so it can only wait on an unresolved operation.
C17_Termination ==
    /\ <>Terminated
    /\ [](Len(calls) <= Len(CALLS))
    /\ []((~Terminated /\ outstanding = {}) => ENABLED <<DriverStep>>_vars)
    /\ []((~Terminated /\ outstanding # {}) => ~ENABLED <<DriverStep>>_vars)

C17_Witness ==
    /\ Terminated
    /\ outstanding = {}
    /\ \A c \in {"conn_await", "open_bi", "write_all", "finish"} : outcome[c] # "none"

-----------------------------------------------------------------------------
(* The process run again: every run enters main anew *)

\* how many runs of the process are followed
MaxRuns == 2

\* the call that failed in this run, "none" when none did
FirstFailed ==
    IF SomeFailed THEN CHOOSE c \in Fallible : outcome[c] = "Err" ELSE "none"

\* the bindings of main at entry: nothing in main.rs outlives a run (the
\* only items outside main are the constants of lines 11-13)
Fresh ==
    /\ pc = "start"
    /\ ret = "none"
    /\ res = "unset"
    /\ config = <<>>
    /\ conn = "none"
    /\ peer = <<>>
    /\ stream = "none"
    /\ sent = <<>>
    /\ reads = 0
    /\ created = [k \in Kinds |-> 0]
    /\ calls = <<>>
    /\ outcome = [c \in AllCalls |-> "none"]
    /\ outstanding = {}
    /\ stdout = <<>>

\* the process is started again after main returned; the transport may
\* answer differently this time
Rerun ==
    /\ pc = "exit"
    /\ Len(history) + 1 < MaxRuns
    /\ history' = Append(history, [failed |-> FirstFailed, ret |-> ret, steps |-> Attempted])
    /\ pc' = "start"
    /\ ret' = "none"
    /\ res' = "unset"
    /\ config' = <<>>
    /\ conn' = "none"
    /\ peer' = <<>>
    /\ stream' = "none"
    /\ sent' = <<>>
    /\ reads' = 0
    /\ created' = [k \in Kinds |-> 0]
    /\ calls' = <<>>
    /\ outcome' = [c \in AllCalls |-> "none"]
    /\ outstanding' = {}
    /\ stdout' = <<>>
    /\ env' \in [Fallible -> {"Ok", "Err"}]

RunsNext ==
    \/ Next
    \/ Rerun

RunsSpec == Init /\ [][RunsNext]_vars

\* C18: a run that terminated agrees with every earlier run in which the
\* same call was the first to fail (or in which none failed): same result,
\* same steps attempted; and every run starts from the same bindings
\* whatever the earlier runs did.
C18_RunsAgree ==
    /\ Terminated =>
         \A i \in 1..Len(history) :
            history[i].failed = FirstFailed =>
                (history[i].ret = ret /\ history[i].steps = Attempted)
    /\ pc = "start" => Fresh

\* two runs that both failed at write_all, the second one terminated
C18_Witness ==
    /\ Terminated
    /\ Len(history) = 1
    /\ FirstFailed = "write_all"
    /\ history[1].failed = "write_all"

====
